---- MODULE Spec2Model ----
(***************************************************************************)
(* A model of the Jiu-Jitsu Genie application:                             *)
(*   - next_move, the flow-chart navigator (Jiu-Jitsu functions.py),       *)
(*   - the Streamlit script of app.py, one action per script run,          *)
(*   - _extract_video_segment (app.py), one action per step of its loop,   *)
(*   - analyze_grappling_match (app.py), which calls it.                   *)
(*   - the prompt builders (Jiu-Jitsu functions.py), one action per call.  *)
(* Text is a sequence of one-character strings, so that strip, split and   *)
(* the substring test are computed the way Python computes them.           *)
(***************************************************************************)
EXTENDS Integers, Sequences, FiniteSets, TLC

VARIABLES
    \* the navigator on its own
    nav_pc,        \* "ready" before the next_move call, "done" after it
    nav_args,      \* the arguments of the next_move call
    nav_out,       \* what the call did: the AI calls made, the value returned
    \* st.session_state (app.py, lines 60-70) and what surrounds it
    current_image,       \* 0 for None, else the temporary file holding the image
    current_chat,        \* the chat history: a sequence of [role, content]
    current_flowchart,   \* [none, text]: None, or the diagram text
    current_video,       \* 0 for None, else the temporary file holding the video
    current_attributes,  \* the attribute summary, "" at first
    api_key,             \* 'OPENAI_API_KEY' in os.environ
    tmp_count,           \* temporary files created so far (they are numbered)
    run,                 \* the last script run: what was clicked, shown, called
    \* one call of _extract_video_segment
    seg_pc,        \* "start", "loop", "done"
    seg_args,      \* the source video and the times asked for
    seg_cap,       \* the reader: opened, released, position
    seg_out,       \* the writer: created, released, properties, frames written
    seg_frame,     \* current_frame, and end_frame beside it
    seg_ret,       \* how the call ended: "none", "True", "False", "raised"
    \* one call of analyze_grappling_match
    ana_pc,        \* "start", "extract", "describe", "cleanup", "done"
    ana,           \* its arguments and locals, the file sent, how it ended
    \* one call of a prompt builder
    prm_pc,        \* "ready" before the prompt is built, "done" after
    prm_args,      \* which function, and its arguments
    prm_out        \* the prompt handed to the service: a sequence of pieces

navVars == <<nav_pc, nav_args, nav_out>>

session == <<current_image, current_chat, current_flowchart, current_video,
             current_attributes>>

ctlVars == <<current_image, current_chat, current_flowchart, current_video,
             current_attributes, api_key, tmp_count, run>>

segVars == <<seg_pc, seg_args, seg_cap, seg_out, seg_frame, seg_ret>>

anaVars == <<ana_pc, ana>>

prmVars == <<prm_pc, prm_args, prm_out>>

vars == <<navVars, ctlVars, segVars, anaVars, prmVars>>

-----------------------------------------------------------------------------
(* Bounds *)

\* A flow chart of the navigator's inputs has at most this many lines.
MaxLines == 2

\* At most this many temporary files are created in a session.
MaxTmp == 3

\* extract_frames returns at most this many frames to analyse.
MaxFrames == 1

\* At most this many messages are sent in a Master Talk conversation.
MaxSends == 1

\* A source video has at most this many frames.
MaxVideoFrames == 4

\* Times are multiples of 1/TimeDen seconds, up to MaxTime of them.
TimeDen == 2
MaxTime == 4

\* A source video has 1 to MaxFps frames per second.
MaxFps == 2

-----------------------------------------------------------------------------
(* Python string operations on sequences of characters *)

Min(S) == CHOOSE x \in S : \A y \in S : x <= y
Max(S) == CHOOSE x \in S : \A y \in S : x >= y

\* str.strip() with no argument removes these (the ones the inputs use).
Whitespace == {" ", "\n", "\t"}

Arrow == <<"-", "-", ">">>
Bracket == <<"[">>
Newline == <<"\n">>

\* s[i:i+len(sep)] == sep, with i counted from 1
StartsWithAt(s, sep, i) ==
    /\ i + Len(sep) - 1 <= Len(s)
    /\ \A k \in 1..Len(sep) : s[i + k - 1] = sep[k]

\* str.find, counted from 1; 0 when sep does not occur
Find(s, sep) ==
    LET last == Len(s) - Len(sep) + 1
        RECURSIVE From(_)
        From(j) == IF j > last THEN 0
                   ELSE IF StartsWithAt(s, sep, j) THEN j
                   ELSE From(j + 1)
    IN  From(1)

\* `sub in s`
Contains(sub, s) == Find(s, sub) # 0

\* str.strip(): the text from its first to its last character that is no
\* whitespace
Strip(s) ==
    LET RECURSIVE First(_)
        First(i) == IF i > Len(s) THEN 0
                    ELSE IF s[i] \notin Whitespace THEN i
                    ELSE First(i + 1)
        RECURSIVE Last(_)
        Last(i) == IF i < 1 THEN 0
                   ELSE IF s[i] \notin Whitespace THEN i
                   ELSE Last(i - 1)
    IN  IF First(1) = 0 THEN <<>> ELSE SubSeq(s, First(1), Last(Len(s)))

\* str.split(sep) for a non-empty sep: leftmost, non-overlapping occurrences
RECURSIVE Split(_, _)
Split(s, sep) ==
    LET j == Find(s, sep)
    IN  IF j = 0
        THEN <<s>>
        ELSE <<SubSeq(s, 1, j - 1)>> \o Split(SubSeq(s, j + Len(sep), Len(s)), sep)

Join(lines) ==
    LET RECURSIVE J(_)
        J(i) == IF i > Len(lines) THEN <<>>
                ELSE IF i = Len(lines) THEN lines[i]
                ELSE lines[i] \o Newline \o J(i + 1)
    IN  J(1)

-----------------------------------------------------------------------------
(* The generative AI service: every call either returns a text or raises *)

\* Texts the service returns when asked for a flow chart: a chart, a chart
\* with a line that is no edge statement, or the empty text.
ChartA == <<"A", "-", "-", ">", "B", "[", "x", "]">>
ChartB == <<"B", "-", "-", ">", "C", "[", "y", "]", "\n", "x">>
AICharts == {ChartA, ChartB, <<>>}

Raised == [ok |-> FALSE]
Returned(text) == [ok |-> TRUE, text |-> text]
ChartOutcomes == {Raised} \cup {Returned(c) : c \in AICharts}

-----------------------------------------------------------------------------
(* Jiu-Jitsu functions.py *)

\* The two ruleset labels exchanged
match_type_swapped(isMMA) == IF isMMA THEN "Jiu-jitsu" ELSE "MMA"

\* `match_type = "MMA" if isMMA else "Jiu-jitsu"` (lines 28, 79, 120)
match_type(isMMA) == IF isMMA THEN "MMA" ELSE "Jiu-jitsu"

\* The optional clause emitted whatever the input
clause_always(intro, text) == <<intro, text>>

\* `if keywords: prompt += f"...{keywords}"` (lines 35-36, 87-88, 125-126):
\* the clause is added only for a non-empty input
clause(intro, text) == IF text # "" THEN <<intro, text>> ELSE <<>>

\* The fixed text of the three clauses
PlanClause ==
    "I want you to also take special note of the following keywords for your image and recommendation analysis: "
MatchClause ==
    "I want you to also take special note of the following keywords for your analysis: "
FlowClause ==
    ", and take into account that the athlete has the following ideas: "

\* The prompt of generate_grappling_plan (lines 28-36): the pieces of fixed
\* text and the values put between them, in order
grappling_plan_prompt(player_variable, isMMA, keywords) ==
    << "the image is a still frame from a grappling match. The match has ",
       match_type(isMMA),
       " rules. I want you to analyze: ",
       player_variable,
       ", and provide three options for the next immediate steps towards grappling moves that would work best for them given their current position. I want these steps to be listed in quick bullet format like ex: \"1) <<step>> : towards <<move>>, 2) ...\". Base the recommendations on historical MMA and Jiu-jitsu match performance. " >>
    \o clause(PlanClause, keywords)

\* The prompt of analyse_grappling_match (lines 79-88)
grappling_match_prompt(player_variable, isMMA, keywords) ==
    << "these images are frames from a grappling match. The match has ",
       match_type(isMMA),
       " rules. I want you to analyze: ",
       player_variable,
       ", and provide an analysis of what went right or wrong during the match, along with some recommendations for the ",
       player_variable,
       " in their next match. I want these recommendations to be listed in a quick summary format. Base the recommendations on the athlete's body type, jiu-jitsu guard situation, and historical MMA and Jiu-jitsu match performance. " >>
    \o clause(MatchClause, keywords)

\* The prompt of generate_flow_chart (lines 120-129)
flow_chart_text(measurables, position_variable, isMMA, favorite_ideas) ==
    << "I want you to generate a Mermaid based radial visual flow chart of jiu-jitsu moves that will have the greatest likelihood of success for an athlete with the following measurables: ",
       measurables,
       ". I want this chart to focus on ",
       position_variable,
       " under the ",
       match_type(isMMA),
       " ruleset" >>
    \o clause(FlowClause, favorite_ideas)
    \o << " of the athlete. Could you label the flow arrows in the diagram using a description of the primary movement required to get to that bubble. Only return the mermaid object, and not any shoulder text whatsoever" >>

\* generate_flow_chart: the prompt, then one generate_text call, whose
\* outcome is `ai`. The result is what the caller sees.
flow_chart_prompt(measurables, position_variable, isMMA, favorite_ideas) ==
    [ op            |-> "generate_text",
      measurables   |-> measurables,
      position      |-> position_variable,
      ruleset       |-> match_type(isMMA),
      ideas_clause  |-> favorite_ideas # "",
      ideas         |-> favorite_ideas,
      prompt        |-> flow_chart_text(measurables, position_variable, isMMA,
                                        favorite_ideas) ]

generate_flow_chart(measurables, position_variable, isMMA, favorite_ideas, ai) ==
    [ calls  |-> <<flow_chart_prompt(measurables, position_variable, isMMA,
                                     favorite_ideas)>>,
      raised |-> ~ai.ok,
      ret    |-> IF ai.ok THEN ai.text ELSE <<>> ]

\* target_label without the strip after the cut at the bracket
target_label_unstripped(line) ==
    LET parts  == Split(line, Arrow)
        target == Strip(parts[2])
    IN  IF Contains(Bracket, target)
        THEN Split(target, Bracket)[1]
        ELSE target

\* The target of one edge statement (lines 275-282); parts has >= 2 elements.
target_label(line) ==
    LET parts  == Split(line, Arrow)
        target == Strip(parts[2])
    IN  IF Contains(Bracket, target)
        THEN Strip(Split(target, Bracket)[1])
        ELSE target

\* scan_lines without the break: a later matching line overwrites an earlier one
RECURSIVE scan_lines_no_break(_, _, _)
scan_lines_no_break(lines, move_text, i) ==
    LET hits == {k \in i..Len(lines) :
                    /\ Contains(move_text, lines[k])
                    /\ Contains(Arrow, lines[k])}
    IN  IF hits = {}
        THEN [line |-> 0, label |-> <<>>]
        ELSE [line |-> Max(hits), label |-> target_label(lines[Max(hits)])]

\* The scan of lines 273-283 from line i on: the first line that holds the
\* move text and an arrow sets new_position and ends the loop.  line = 0
\* stands for new_position = None.
RECURSIVE scan_lines(_, _, _)
scan_lines(lines, move_text, i) ==
    IF i > Len(lines)
    THEN [line |-> 0, label |-> <<>>]
    ELSE IF Contains(move_text, lines[i]) /\ Contains(Arrow, lines[i])
         THEN IF Len(Split(lines[i], Arrow)) >= 2
              THEN [line |-> i, label |-> target_label(lines[i])]
              ELSE scan_lines(lines, move_text, i + 1)
         ELSE scan_lines(lines, move_text, i + 1)

chart_lines(flow_chart) == Split(Strip(flow_chart), Newline)

new_position(flow_chart, move_text) ==
    scan_lines(chart_lines(flow_chart), move_text, 1)

\* `new_position is None` in place of `not new_position`
no_position_none_only(np) == np.line = 0

\* `not new_position`: None or the empty string
no_position(np) == np.line = 0 \/ np.label = <<>>

\* Returning the stripped text the lines were cut from, not the argument
stripped_chart(flow_chart) == Strip(flow_chart)

\* What next_move returns when no node was found (line 287)
original_chart(flow_chart) == flow_chart

\* Line 290 leaving favorite_ideas to its default
next_move_from_default_ideas(np, flow_chart, measurables, isMMA, favorite_ideas, ai) ==
    IF no_position(np)
    THEN [calls |-> <<>>, raised |-> FALSE, ret |-> original_chart(flow_chart)]
    ELSE generate_flow_chart(measurables, np.label, isMMA, "", ai)

\* Lines 285-290, new_position being what the loop left
next_move_from(np, flow_chart, measurables, isMMA, favorite_ideas, ai) ==
    IF no_position(np)
    THEN [calls |-> <<>>, raised |-> FALSE, ret |-> original_chart(flow_chart)]
    ELSE generate_flow_chart(measurables, np.label, isMMA, favorite_ideas, ai)

next_move(flow_chart, move_text, measurables, isMMA, favorite_ideas, ai) ==
    next_move_from(new_position(flow_chart, move_text), flow_chart,
                   measurables, isMMA, favorite_ideas, ai)

-----------------------------------------------------------------------------
(* app.py, lines 60-369: the Streamlit script.  Every user interaction runs *)
(* the script once from the top; one action is one such run on one screen.  *)

\* st.session_state.current_flowchart: None, or a text
NoChart == [none |-> TRUE, text |-> <<>>]
Chart(text) == [none |-> FALSE, text |-> text]
\* `if st.session_state.current_flowchart:`
Truthy(fc) == ~fc.none /\ fc.text # <<>>

\* What the user types: a position, keywords or ideas, a chat message, a move
Positions == {<<>>, <<"A">>}
Keywords == {"", "k1"}
Ideas == {"", "i1"}
Comments == {"", "c1"}
ChosenTexts == {<<>>, <<"x">>, <<"z">>}

\* What the service answers to the other calls
AttrTexts == {"a1", "a2"}
AttrOutcomes == {Raised} \cup {Returned(t) : t \in AttrTexts}
TextOutcomes == {Raised, Returned("r1")}

\* MovieAI.extract_frames: it raises, or returns at most max_samples frames
FrameOutcomes(max_samples) ==
    {[ok |-> FALSE, n |-> 0]} \cup {[ok |-> TRUE, n |-> k] : k \in 0..max_samples}

\* The outcomes to consider for a call: those of the service when the call is
\* made, and a single placeholder when it is not
WhenCalled(made, outcomes) == IF made THEN outcomes ELSE {Raised}

\* The texts to consider for an input field: all of them when the run reads
\* the field, the empty one when it does not
Typed(read, texts, empty) == IF read THEN texts ELSE {empty}

\* One external AI call, as the run records it
Called(op, ok) == [op |-> op, ok |-> ok]

\* get_attributes (Jiu-Jitsu functions.py, lines 293-323): one
\* generate_image_description call, whose outcome is `ai`
get_attributes(ai) ==
    [ calls  |-> <<Called("get_attributes", ai.ok)>>,
      raised |-> ~ai.ok,
      ret    |-> IF ai.ok THEN ai.text ELSE "" ]

\* The sidebar (lines 96-101): the key typed in is put in os.environ.  Typing
\* it runs the script by itself, so it comes with no button clicked.
Sidebar(key_entered) == api_key \/ key_entered
KeyEntry(clicked) == IF clicked THEN {FALSE} ELSE BOOLEAN

\* Lines 60-70
CtlInit ==
    /\ current_image = 0
    /\ current_chat = <<>>
    /\ current_flowchart = NoChart
    /\ current_video = 0
    /\ current_attributes = ""
    /\ api_key \in BOOLEAN
    /\ tmp_count = 0
    /\ run = [screen |-> "none", button |-> "none", messages |-> {},
              calls |-> <<>>, escaped |-> FALSE, missing |-> FALSE,
              chosen_next |-> <<>>]

\* tempfile.NamedTemporaryFile(delete=False): a file with a new name
NewTmp(k) == tmp_count + k

\* The temporary files on disk: the script creates them with delete=False
\* and has no call that removes one, so all those created are still there
tmp_files == 1..tmp_count

-----------------------------------------------------------------------------
(* Position Image Recommendations (lines 104-150) *)

RunImage ==
    \E uploaded \in BOOLEAN, clicked \in BOOLEAN :
    \E position_variable \in Typed(clicked, Positions, <<>>) :
    \E keywords \in Typed(clicked, Keywords, "") :
    \E key_entered \in KeyEntry(clicked) :
      LET image_location == IF uploaded THEN NewTmp(1) ELSE 0
          missing == image_location = 0 \/ position_variable = <<>> \/ keywords = ""
          go      == clicked /\ ~missing
      IN
      \E aiAttr \in WhenCalled(go, AttrOutcomes) :
      \E aiPlan \in WhenCalled(go /\ aiAttr.ok, TextOutcomes) :
      LET ga      == get_attributes(aiAttr)
          calls   == IF ~go THEN <<>>
                     ELSE IF ga.raised THEN ga.calls
                     ELSE ga.calls \o <<Called("generate_grappling_plan", aiPlan.ok)>>
          failed  == go /\ (ga.raised \/ ~aiPlan.ok)
      IN  /\ uploaded => tmp_count < MaxTmp
          /\ tmp_count' = IF uploaded THEN tmp_count + 1 ELSE tmp_count
          /\ current_image' = IF uploaded THEN image_location ELSE current_image
          /\ current_attributes' =
                IF go /\ ~ga.raised THEN ga.ret ELSE current_attributes
          /\ api_key' = Sidebar(key_entered)
          /\ run' = [ screen   |-> "image",
                      button   |-> IF clicked THEN "recommend" ELSE "none",
                      messages |-> IF clicked /\ missing THEN {"missing_input"}
                                   ELSE IF failed THEN {"error_occurred"}
                                   ELSE {},
                      calls    |-> calls,
                      escaped  |-> FALSE,
                      missing  |-> clicked /\ missing,
                      chosen_next |-> <<>> ]
          /\ UNCHANGED <<current_chat, current_flowchart, current_video>>
          /\ UNCHANGED <<navVars, segVars, anaVars, prmVars>>

-----------------------------------------------------------------------------
(* Master Talk (lines 153-213) *)

\* The history begun without the system message
InitialChat_no_system(initial_response) ==
    << [role |-> "user",      content |-> "start"],
       [role |-> "assistant", content |-> initial_response] >>

\* Lines 173-177
InitialChat(initial_response) ==
    << [role |-> "system",    content |-> "instructions"],
       [role |-> "user",      content |-> "start"],
       [role |-> "assistant", content |-> initial_response] >>

\* The Send handler dropping the oldest exchange to keep the history short
ChatAfterSend_pruned(chat, next_comment, response) ==
    SubSeq(chat, 1, 1) \o SubSeq(chat, 4, Len(chat))
        \o << [role |-> "user",      content |-> next_comment],
              [role |-> "assistant", content |-> response] >>

\* Lines 204-205
ChatAfterSend(chat, next_comment, response) ==
    chat \o << [role |-> "user",      content |-> next_comment],
               [role |-> "assistant", content |-> response] >>

RunTalk ==
    \E button \in {"none", "send", "generate_flow"} :
    \E next_comment \in Typed(button = "send", Comments, "") :
    \E key_entered \in KeyEntry(button # "none") :
      LET key       == Sidebar(key_entered)
          do_init   == Len(current_chat) = 0 /\ key
      IN
      \E aiInit \in WhenCalled(do_init, TextOutcomes) :
      LET init_fail == do_init /\ ~aiInit.ok
          chat1     == IF do_init /\ aiInit.ok
                       THEN InitialChat(aiInit.text) ELSE current_chat
          \* an exception of the first call ends the run: nothing after it runs
          do_send   == ~init_fail /\ button = "send" /\ next_comment # "" /\ key
      IN
      \E aiSend \in WhenCalled(do_send, TextOutcomes) :
      LET send_fail == do_send /\ ~aiSend.ok
          chat2     == IF do_send /\ aiSend.ok
                       THEN ChatAfterSend(chat1, next_comment, aiSend.text)
                       ELSE chat1
      IN  /\ Len(chat2) <= 3 + 2 * MaxSends
          /\ current_chat' = chat2
          /\ api_key' = key
          /\ run' = [ screen   |-> "talk",
                      button   |-> button,
                      messages |-> {},
                      calls    |-> (IF do_init
                                    THEN <<Called("generate_text", aiInit.ok)>>
                                    ELSE <<>>)
                                   \o (IF do_send
                                       THEN <<Called("generate_chat_response", aiSend.ok)>>
                                       ELSE <<>>),
                      escaped  |-> init_fail \/ send_fail,
                      missing  |-> ~init_fail /\ button = "send" /\ next_comment = "",
                      chosen_next |-> <<>> ]
          /\ UNCHANGED <<current_image, current_flowchart, current_video,
                         current_attributes, tmp_count>>
          /\ UNCHANGED <<navVars, segVars, anaVars, prmVars>>

-----------------------------------------------------------------------------
(* FLOW Chart Generator (lines 216-290) *)

\* The Flow handler assigning the new chart before next_move has returned
FlowChartAfter_early(before, nm) == Chart(nm.ret)

\* Lines 274-290: the chart held after the try block around next_move
FlowChartAfter(before, nm) == IF nm.raised THEN before ELSE Chart(nm.ret)

\* The Generate handler assigning whatever the failed call left behind
GeneratedChartAfter_early(before, gen) == Chart(gen.ret)

\* Lines 241-253: the chart held after the try block around generate_flow_chart
GeneratedChartAfter(before, gen) == IF gen.raised THEN before ELSE Chart(gen.ret)

\* Line 268 and the loop of next_move, tabulated once over the charts the
\* session can hold and the texts typed (both are functions of these two only)
found_in_chart ==
    [c \in AICharts, m \in ChosenTexts |-> Contains(m, c)]
new_position_in_chart ==
    [c \in AICharts, m \in ChosenTexts |-> new_position(c, m)]

\* The ruleset and the ideas typed in only shape the prompt, which a run
\* does not record: one value of each stands for all.
RunFlow ==
    \E button \in (IF Truthy(current_flowchart)
                   THEN {"none", "generate", "flow"}     \* line 256: the Flow
                   ELSE {"none", "generate"}) :          \* button is drawn
    \E position_variable \in Positions, key_entered \in KeyEntry(button # "none") :
    \E chosen_next \in Typed(button = "flow", ChosenTexts, <<>>) :
      LET isMMA      == TRUE
          ideas      == ""
          \* lines 226-233: the attributes of the current image, on every run
          do_attr    == current_image # 0 /\ position_variable # <<>>
          \* lines 236-253
          gen_missing == button = "generate" /\ position_variable = <<>>
          do_gen      == button = "generate" /\ position_variable # <<>>
          \* lines 263-290
          flow_missing == button = "flow" /\ chosen_next = <<>>
          do_flow      == button = "flow" /\ chosen_next # <<>>
          found        == found_in_chart[current_flowchart.text, chosen_next]
          do_move      == do_flow /\ found
          np           == new_position_in_chart[current_flowchart.text, chosen_next]
          resolved     == do_move /\ ~no_position(np)
      IN
      \E aiAttr \in WhenCalled(do_attr, AttrOutcomes) :
      \E aiChart \in WhenCalled(do_gen \/ resolved, ChartOutcomes) :
      LET ga         == get_attributes(aiAttr)
          attributes == IF do_attr /\ ~ga.raised THEN ga.ret ELSE ""
          attrs1     == IF do_attr /\ ~ga.raised THEN ga.ret ELSE current_attributes
          calls1     == IF do_attr THEN ga.calls ELSE <<>>
          msgs1      == IF ~do_attr THEN {}
                        ELSE IF ga.raised THEN {"attributes_warning"}
                        ELSE {"attributes_success"}
          gen        == generate_flow_chart(
                            IF attributes # "" THEN attributes ELSE attrs1,
                            position_variable, isMMA, ideas, aiChart)
          \* next_move, its loop being the one np was computed by
          nm         == next_move_from(np, current_flowchart.text, attrs1,
                                       isMMA, ideas, aiChart)
          \* line 288: the script runs again from the top, no button clicked
          rerun      == do_move /\ ~nm.raised
      IN
      \E aiAttrRerun \in WhenCalled(rerun /\ do_attr, AttrOutcomes) :
      LET ga2        == get_attributes(aiAttrRerun)
          attrs2     == IF rerun /\ do_attr /\ ~ga2.raised THEN ga2.ret ELSE attrs1
          msgs2      == IF ~do_attr THEN {}
                        ELSE IF ga2.raised THEN {"attributes_warning"}
                        ELSE {"attributes_success"}
      IN  /\ current_attributes' = attrs2
          /\ current_flowchart' =
                IF do_gen THEN GeneratedChartAfter(current_flowchart, gen)
                ELSE IF do_move THEN FlowChartAfter(current_flowchart, nm)
                ELSE current_flowchart
          /\ api_key' = Sidebar(key_entered)
          /\ run' = [ screen   |-> "flow",
                      button   |-> button,
                      messages |->
                          IF rerun THEN msgs2
                          ELSE msgs1 \cup
                               (IF gen_missing THEN {"missing_input"} ELSE {}) \cup
                               (IF do_gen /\ gen.raised THEN {"error_occurred"} ELSE {}) \cup
                               (IF do_flow /\ ~found THEN {"not_in_chart"} ELSE {}) \cup
                               (IF do_move /\ nm.raised THEN {"error_occurred"} ELSE {}),
                      calls    |->
                          calls1
                          \o (IF do_gen THEN <<Called("generate_flow_chart", ~gen.raised)>>
                              ELSE <<>>)
                          \o (IF do_move /\ nm.calls # <<>>
                              THEN <<Called("generate_flow_chart", ~nm.raised)>>
                              ELSE <<>>)
                          \o (IF rerun /\ do_attr THEN ga2.calls ELSE <<>>),
                      escaped  |-> FALSE,
                      missing  |-> gen_missing \/ flow_missing,
                      chosen_next |-> chosen_next ]
          /\ UNCHANGED <<current_image, current_chat, current_video, tmp_count>>
          /\ UNCHANGED <<navVars, segVars, anaVars, prmVars>>

-----------------------------------------------------------------------------
(* Video Match Analysis (lines 293-369) *)

RunVideo ==
    \E uploaded \in BOOLEAN :
    \E clicked \in (IF uploaded THEN BOOLEAN ELSE {FALSE}) :
    \E key_entered \in KeyEntry(clicked) :
      LET key        == Sidebar(key_entered)
          video_path == NewTmp(1)
          go         == uploaded /\ clicked /\ key
          \* lines 324-340: no image yet, so one frame of the video becomes it
          need_image == go /\ current_image = 0
      IN
      \E first \in (IF need_image THEN FrameOutcomes(1) ELSE {[ok |-> TRUE, n |-> 0]}) :
      LET first_fail == need_image /\ ~first.ok
          has_frame  == need_image /\ first.ok /\ first.n >= 1
          frame_path == NewTmp(2)
      IN
      \E aiAttr \in WhenCalled(has_frame, AttrOutcomes) :
      LET ga         == get_attributes(aiAttr)
          attr_fail  == has_frame /\ ga.raised
          \* lines 343-353: the frames to analyse, each saved to a file
          do_frames  == go /\ ~first_fail /\ ~attr_fail
      IN
      \E frames \in (IF do_frames THEN FrameOutcomes(MaxFrames)
                     ELSE {[ok |-> TRUE, n |-> 0]}) :
      LET frames_fail == do_frames /\ ~frames.ok
          n          == IF do_frames /\ frames.ok THEN frames.n ELSE 0
      IN
      \* lines 356-360: one description per frame, until one raises (fail_at)
      \E fail_at \in 0..n :
      LET described  == IF fail_at \in 1..n THEN fail_at ELSE n
          desc_fail  == fail_at \in 1..n
          created    == (IF uploaded THEN 1 ELSE 0) + (IF has_frame THEN 1 ELSE 0) + n
      IN  /\ tmp_count + created <= MaxTmp
          /\ tmp_count' = tmp_count + created
          /\ current_video' = IF uploaded THEN video_path ELSE current_video
          /\ current_image' = IF has_frame THEN frame_path ELSE current_image
          /\ current_attributes' =
                IF has_frame /\ ~ga.raised THEN ga.ret ELSE current_attributes
          /\ api_key' = key
          /\ run' = [ screen   |-> "video",
                      button   |-> IF clicked THEN "analyze" ELSE "none",
                      messages |->
                          (IF uploaded /\ clicked /\ ~key THEN {"key_required"} ELSE {}) \cup
                          (IF has_frame THEN {"frame_success"} ELSE {}) \cup
                          (IF first_fail \/ attr_fail \/ frames_fail \/ desc_fail
                           THEN {"error_occurred"} ELSE {}),
                      calls    |->
                          (IF has_frame THEN ga.calls ELSE <<>>)
                          \o [i \in 1..described |->
                                Called("generate_image_description",
                                       ~(desc_fail /\ i = fail_at))],
                      escaped  |-> FALSE,
                      missing  |-> FALSE,
                      chosen_next |-> <<>> ]
          /\ UNCHANGED <<current_chat, current_flowchart>>
          /\ UNCHANGED <<navVars, segVars, anaVars, prmVars>>

-----------------------------------------------------------------------------
(* _extract_video_segment (app.py, lines 586-645), a step at a time *)

\* int(t * fps) for a time of t/TimeDen seconds, t >= 0
frame_of(t, fps) == (t * fps) \div TimeDen

\* Line 629 with < for <=
in_range_exclusive(current_frame, end_frame) == current_frame < end_frame

\* Line 629: the loop condition
in_range(current_frame, end_frame) == current_frame <= end_frame

\* Lines 630-632 with the result of the read ignored
end_of_stream_ignored(pos, nframes) == FALSE

\* Lines 630-632: cap.read() returns ret = False when no frame is left
end_of_stream(pos, nframes) == pos >= nframes

\* Line 610 returning True
open_failure_success == "True"

\* Line 610: what the call returns when the video cannot be opened
open_failure_result == "False"

\* The source videos and the times asked for
SegArgs ==
    [ openable : BOOLEAN,
      nframes  : 0..MaxVideoFrames,
      fps      : 1..MaxFps,
      width    : {4, 6},
      height   : {3},
      start    : 0..MaxTime,
      end      : 0..MaxTime ]

NoReader == [opened |-> FALSE, released |-> FALSE, pos |-> 0]
NoWriter == [created |-> FALSE, released |-> FALSE, fps |-> 0, width |-> 0,
             height |-> 0, frames |-> <<>>]

SegInit ==
    /\ seg_pc = "start"
    /\ seg_args \in SegArgs
    /\ seg_cap = NoReader
    /\ seg_out = NoWriter
    /\ seg_frame = [current |-> 0, end |-> 0, ret |-> "none"]
    /\ seg_ret = "none"

\* Lines 608-610: the video cannot be opened
SegOpenFails ==
    /\ seg_pc = "start"
    /\ ~seg_args.openable
    /\ seg_ret' = open_failure_result
    /\ seg_pc' = "done"
    /\ UNCHANGED <<seg_args, seg_cap, seg_out, seg_frame>>
    /\ UNCHANGED <<navVars, ctlVars, anaVars, prmVars>>

\* Lines 608-628: the reader is opened, the writer created with the source's
\* properties, the reader moved to start_frame
SegOpen ==
    /\ seg_pc = "start"
    /\ seg_args.openable
    /\ LET start_frame == frame_of(seg_args.start, seg_args.fps)
           end_frame   == frame_of(seg_args.end, seg_args.fps)
       IN  /\ seg_cap' = [opened |-> TRUE, released |-> FALSE, pos |-> start_frame]
           /\ seg_out' = [created |-> TRUE, released |-> FALSE,
                          fps |-> seg_args.fps, width |-> seg_args.width,
                          height |-> seg_args.height, frames |-> <<>>]
           /\ seg_frame' = [current |-> start_frame, end |-> end_frame,
                            ret |-> "none"]
    /\ seg_pc' = "loop"
    /\ UNCHANGED <<seg_args, seg_ret>>
    /\ UNCHANGED <<navVars, ctlVars, anaVars, prmVars>>

\* Lines 629-635: one frame read and written
SegCopy ==
    /\ seg_pc = "loop"
    /\ in_range(seg_frame.current, seg_frame.end)
    /\ ~end_of_stream(seg_cap.pos, seg_args.nframes)  \* ret is True
    /\ seg_out' = [seg_out EXCEPT !.frames = Append(@, seg_cap.pos)]
    /\ seg_cap' = [seg_cap EXCEPT !.pos = @ + 1]
    /\ seg_frame' = [seg_frame EXCEPT !.current = @ + 1, !.ret = "True"]
    /\ UNCHANGED <<seg_pc, seg_args, seg_ret>>
    /\ UNCHANGED <<navVars, ctlVars, anaVars, prmVars>>

\* Lines 629-641: the loop ends, at end_frame or at the end of the stream
\* (ret is False); both handles are released and True is returned
SegFinish ==
    /\ seg_pc = "loop"
    /\ \/ ~in_range(seg_frame.current, seg_frame.end)
       \/ end_of_stream(seg_cap.pos, seg_args.nframes)
    /\ seg_frame' = IF in_range(seg_frame.current, seg_frame.end)
                    THEN [seg_frame EXCEPT !.ret = "False"]   \* a read was made
                    ELSE seg_frame
    /\ seg_cap' = [seg_cap EXCEPT !.released = TRUE]
    /\ seg_out' = [seg_out EXCEPT !.released = TRUE]
    /\ seg_ret' = "True"
    /\ seg_pc' = "done"
    /\ UNCHANGED seg_args
    /\ UNCHANGED <<navVars, ctlVars, anaVars, prmVars>>

\* Lines 630-634, 643-645: cap.read() or out.write() raises; the handler
\* prints the error and returns False
SegRaise ==
    /\ seg_pc = "loop"
    /\ in_range(seg_frame.current, seg_frame.end)
    /\ seg_ret' = "False"
    /\ seg_pc' = "done"
    /\ UNCHANGED <<seg_args, seg_cap, seg_out, seg_frame>>
    /\ UNCHANGED <<navVars, ctlVars, anaVars, prmVars>>

-----------------------------------------------------------------------------
(* analyze_grappling_match (app.py, lines 416-472), a step at a time *)

\* Lines 447-448: the result of _extract_video_segment is not looked at
video_after_extraction(extracted) == "subset"

AnaIdle ==
    /\ ana_pc = "idle"
    /\ ana = [timed |-> FALSE, video_to_analyze |-> "video", sent |-> "none",
              subset_exists |-> FALSE, ret |-> "none"]

\* The call's arguments: start_time and end_time are given (timed) or None
AnaInit ==
    /\ ana_pc = "start"
    /\ ana \in [timed : BOOLEAN, video_to_analyze : {"video"}, sent : {"none"},
                subset_exists : {FALSE}, ret : {"none"}]

\* Lines 444-447: with both times given _extract_video_segment is called
AnaStart ==
    /\ ana_pc = "start"
    /\ IF ana.timed
       THEN /\ seg_pc = "idle"
            /\ seg_pc' = "start"
            /\ ana_pc' = "extract"
       ELSE /\ ana_pc' = "describe"
            /\ UNCHANGED seg_pc
    /\ UNCHANGED <<ana, seg_args, seg_cap, seg_out, seg_frame, seg_ret>>
    /\ UNCHANGED <<navVars, ctlVars, prmVars>>

\* Lines 447-448: the extraction has returned; the writer, if it was created,
\* has left a file at subset_path
AnaExtracted ==
    /\ ana_pc = "extract"
    /\ seg_pc = "done"
    /\ ana' = [ana EXCEPT !.video_to_analyze = video_after_extraction(seg_ret),
                          !.subset_exists = seg_out.created]
    /\ ana_pc' = "describe"
    /\ UNCHANGED <<navVars, ctlVars, segVars, prmVars>>

\* Lines 451-463: the prompt is built and the video sent to the service; an
\* exception of the call leaves the function at once
AnaDescribe ==
    /\ ana_pc = "describe"
    /\ \E ai \in TextOutcomes :
         /\ ana' = [ana EXCEPT !.sent = ana.video_to_analyze,
                               !.ret = IF ai.ok THEN "none" ELSE "raised"]
         /\ ana_pc' = IF ai.ok THEN "cleanup" ELSE "done"
    /\ UNCHANGED <<navVars, ctlVars, segVars, prmVars>>

\* Lines 465-472: the segment file is removed if it exists; a removal that
\* fails is passed over
AnaCleanup ==
    /\ ana_pc = "cleanup"
    /\ \E removed \in BOOLEAN :
         ana' = [ana EXCEPT
                   !.subset_exists =
                       IF ana.video_to_analyze # "video" /\ ana.subset_exists
                       THEN ~removed ELSE ana.subset_exists,
                   !.ret = "returned"]
    /\ ana_pc' = "done"
    /\ UNCHANGED <<navVars, ctlVars, segVars, prmVars>>

-----------------------------------------------------------------------------
(* The prompt builders on their own *)

\* The functions, and the texts tried for their arguments: empty, plain, and
\* one that is itself a ruleset label
PrmFunctions == {"generate_grappling_plan", "analyse_grappling_match",
                 "generate_flow_chart"}
PrmTexts == {"", "k1", "MMA"}
PrmPlayers == {"top", "both"}
PrmMeasurables == {"", "m1"}

PrmIdle ==
    /\ prm_pc = "idle"
    /\ prm_args = [function |-> "generate_flow_chart", measurables |-> "",
                   player_variable |-> "both", isMMA |-> TRUE, keywords |-> ""]
    /\ prm_out = <<>>

PrmInit ==
    /\ prm_pc = "ready"
    /\ prm_args \in [ function        : PrmFunctions,
                      measurables     : PrmMeasurables,
                      player_variable : PrmPlayers,
                      isMMA           : BOOLEAN,
                      keywords        : PrmTexts ]
    /\ prm_out = <<>>

BuildPlan ==
    /\ prm_pc = "ready"
    /\ prm_args.function = "generate_grappling_plan"
    /\ prm_out' = grappling_plan_prompt(prm_args.player_variable,
                                        prm_args.isMMA, prm_args.keywords)
    /\ prm_pc' = "done"
    /\ UNCHANGED prm_args
    /\ UNCHANGED <<navVars, ctlVars, segVars, anaVars>>

BuildMatch ==
    /\ prm_pc = "ready"
    /\ prm_args.function = "analyse_grappling_match"
    /\ prm_out' = grappling_match_prompt(prm_args.player_variable,
                                         prm_args.isMMA, prm_args.keywords)
    /\ prm_pc' = "done"
    /\ UNCHANGED prm_args
    /\ UNCHANGED <<navVars, ctlVars, segVars, anaVars>>

BuildFlow ==
    /\ prm_pc = "ready"
    /\ prm_args.function = "generate_flow_chart"
    /\ prm_out' = flow_chart_text(prm_args.measurables, prm_args.player_variable,
                                  prm_args.isMMA, prm_args.keywords)
    /\ prm_pc' = "done"
    /\ UNCHANGED prm_args
    /\ UNCHANGED <<navVars, ctlVars, segVars, anaVars>>

-----------------------------------------------------------------------------
(* The navigator on its own: next_move applied to bounded inputs *)

\* Lines a chart is made of: edge statements with and without a bracketed
\* label, with the move text in the label, in the source or in an arrow
\* label, a chain of two arrows, an empty target, padded with blanks, and
\* a line that is no edge statement.
NavLines ==
    { <<"A">> \o Arrow \o <<"B", "[", "x", "]">>,             \* A-->B[x]
      <<"A", " ">> \o Arrow \o <<" ", "C", " ", "[", "y", "]", " ">>,
      <<"x">> \o Arrow \o <<"D">>,                            \* x-->D
      <<"A">> \o Arrow \o <<"B">> \o Arrow \o <<"C", "[", "x", "]">>,
      <<"A">> \o Arrow \o <<"|", "x", "|", "D", "[", "y", "]">>,
      <<"A">> \o Arrow \o <<"[", "x", "]">>,                  \* A-->[x]
      <<"x">> }                                               \* no edge

\* The move texts tried: two labels, a text in no line, the empty text.
NavMoves == { <<"x">>, <<"y">>, <<"z">>, <<>> }

\* Charts of at most MaxLines lines, as returned or with a trailing newline.
NavCharts ==
    LET bodies == UNION { {Join(ls) : ls \in [1..n -> NavLines]} : n \in 0..MaxLines }
    IN  bodies \cup {b \o Newline : b \in bodies}

NavMeasurables == {"", "m1"}
NavIdeas == {"", "i1"}

NavInit ==
    /\ nav_pc = "ready"
    /\ nav_args \in [ flow_chart     : NavCharts,
                      move_text      : NavMoves,
                      measurables    : NavMeasurables,
                      isMMA          : BOOLEAN,
                      favorite_ideas : NavIdeas ]
    /\ nav_out = [calls |-> <<>>, raised |-> FALSE, ret |-> <<>>]

\* One call of next_move; the service's answer, if it is asked, is `ai`.
NavCall ==
    /\ nav_pc = "ready"
    /\ \E ai \in ChartOutcomes :
         nav_out' = next_move(nav_args.flow_chart, nav_args.move_text,
                              nav_args.measurables, nav_args.isMMA,
                              nav_args.favorite_ideas, ai)
    /\ nav_pc' = "done"
    /\ UNCHANGED nav_args
    /\ UNCHANGED <<ctlVars, segVars, anaVars, prmVars>>



-----------------------------------------------------------------------------
(* Specifications *)

NavIdle ==
    /\ nav_pc = "idle"
    /\ nav_args = [flow_chart |-> <<>>, move_text |-> <<>>, measurables |-> "",
                   isMMA |-> TRUE, favorite_ideas |-> ""]
    /\ nav_out = [calls |-> <<>>, raised |-> FALSE, ret |-> <<>>]

SegIdle ==
    /\ seg_pc = "idle"
    /\ seg_args = [openable |-> FALSE, nframes |-> 0, fps |-> 1, width |-> 4,
                   height |-> 3, start |-> 0, end |-> 0]
    /\ seg_cap = NoReader
    /\ seg_out = NoWriter
    /\ seg_frame = [current |-> 0, end |-> 0, ret |-> "none"]
    /\ seg_ret = "none"

\* The session: any sequence of script runs
Init == CtlInit /\ NavIdle /\ SegIdle /\ AnaIdle /\ PrmIdle

Next == RunImage \/ RunTalk \/ RunFlow \/ RunVideo

Spec == Init /\ [][Next]_vars

\* One call of next_move on any of the bounded inputs
InitNav == NavInit /\ CtlInit /\ api_key /\ SegIdle /\ AnaIdle /\ PrmIdle

NextNav == NavCall

SpecNav == InitNav /\ [][NextNav]_vars

\* One call of _extract_video_segment on any of the bounded inputs
InitSeg == SegInit /\ CtlInit /\ api_key /\ NavIdle /\ AnaIdle /\ PrmIdle

NextSeg == SegOpenFails \/ SegOpen \/ SegCopy \/ SegFinish \/ SegRaise

SpecSeg == InitSeg /\ [][NextSeg]_vars

\* The same call, which as sequential code keeps running until it returns
SpecSegFair == SpecSeg /\ WF_vars(NextSeg)

\* One call of analyze_grappling_match, on any video and times
InitAna ==
    /\ AnaInit
    /\ seg_pc = "idle"
    /\ seg_args \in SegArgs
    /\ seg_cap = NoReader
    /\ seg_out = NoWriter
    /\ seg_frame = [current |-> 0, end |-> 0, ret |-> "none"]
    /\ seg_ret = "none"
    /\ CtlInit /\ api_key /\ NavIdle /\ PrmIdle

NextAna == AnaStart \/ NextSeg \/ AnaExtracted \/ AnaDescribe \/ AnaCleanup

SpecAna == InitAna /\ [][NextAna]_vars

\* One call of a prompt builder on any of the bounded arguments
InitPrm == PrmInit /\ CtlInit /\ api_key /\ NavIdle /\ SegIdle /\ AnaIdle

NextPrm == BuildPlan \/ BuildMatch \/ BuildFlow

SpecPrm == InitPrm /\ [][NextPrm]_vars

-----------------------------------------------------------------------------
(* Claims about the navigator, checked under SpecNav *)

\* The edge statements (lines with an arrow) among `lines` that contain `text`
Matches(lines, text) ==
    {i \in 1..Len(lines) : Contains(Arrow, lines[i]) /\ Contains(text, lines[i])}

\* C1: among the edge statements that contain the chosen move text, the
\* earliest in document order decides the call: the node asked for is that
\* statement's target, and when that target is empty no node is resolved.
C1_FirstMatchWins ==
    nav_pc = "done" =>
        LET lines == chart_lines(nav_args.flow_chart)
            hits  == Matches(lines, nav_args.move_text)
            lbl   == target_label(lines[Min(hits)])
        IN  hits # {} =>
                IF lbl = <<>>
                THEN nav_out.calls = <<>>
                ELSE /\ Len(nav_out.calls) = 1
                     /\ nav_out.calls[1].position = lbl

\* Two edge statements with different targets contain the text, and a node
\* was resolved.
C1_Witness ==
    /\ nav_pc = "done"
    /\ nav_out.calls # <<>>
    /\ LET lines == chart_lines(nav_args.flow_chart)
           hits  == Matches(lines, nav_args.move_text)
       IN  /\ Cardinality(hits) >= 2
           /\ target_label(lines[Max(hits)]) # target_label(lines[Min(hits)])
           /\ target_label(lines[Max(hits)]) # <<>>

\* C2: when no edge statement contains the chosen move text, next_move asks
\* the service nothing, raises nothing and returns its flow_chart argument,
\* character for character.
C2_NoMatchReturnsChart ==
    (/\ nav_pc = "done"
     /\ Matches(chart_lines(nav_args.flow_chart), nav_args.move_text) = {}) =>
        /\ nav_out.calls = <<>>
        /\ ~nav_out.raised
        /\ nav_out.ret = nav_args.flow_chart

\* No edge statement contains the text, a line that is no edge statement
\* does, and the chart ends in a newline that strip() would remove.
C2_Witness ==
    /\ nav_pc = "done"
    /\ nav_args.move_text # <<>>
    /\ Contains(nav_args.move_text, nav_args.flow_chart)
    /\ Strip(nav_args.flow_chart) # nav_args.flow_chart
    /\ Matches(chart_lines(nav_args.flow_chart), nav_args.move_text) = {}
    /\ nav_out.ret = nav_args.flow_chart

\* The text of a line after its first arrow, and after its last arrow
AfterFirstArrow(line) == SubSeq(line, Find(line, Arrow) + Len(Arrow), Len(line))

AfterLastArrow(line) ==
    LET at == {j \in 1..Len(line) : StartsWithAt(line, Arrow, j)}
    IN  SubSeq(line, Max(at) + Len(Arrow), Len(line))

\* A text up to but excluding its first bracket (all of it without one), trimmed
UpToBracket(text) ==
    Strip(IF Contains(Bracket, text)
          THEN SubSeq(text, 1, Find(text, Bracket) - 1)
          ELSE text)

\* C3 as stated: the node asked for is the text after the arrow of the
\* selected edge statement, up to its bracket, trimmed (the text after the
\* first arrow, or after the last one: either reading of "the target").
C3_LabelIsTextAfterArrow ==
    (nav_pc = "done" /\ nav_out.calls # <<>>) =>
        LET lines == chart_lines(nav_args.flow_chart)
            line  == lines[Min(Matches(lines, nav_args.move_text))]
        IN  nav_out.calls[1].position \in
                {UpToBracket(AfterFirstArrow(line)), UpToBracket(AfterLastArrow(line))}

\* The text between the first arrow of a line and its next arrow (or its end)
BetweenArrows(line) ==
    LET after == AfterFirstArrow(line)
    IN  IF Contains(Arrow, after)
        THEN SubSeq(after, 1, Find(after, Arrow) - 1)
        ELSE after

\* C3 amended: the node asked for is the text between the first arrow of the
\* selected edge statement and its next arrow (or the end of the line), up to
\* but excluding its first bracket, trimmed; when that text is empty no node
\* is resolved.
C3_LabelIsFirstSegment ==
    nav_pc = "done" =>
        LET lines == chart_lines(nav_args.flow_chart)
            hits  == Matches(lines, nav_args.move_text)
            lbl   == UpToBracket(BetweenArrows(lines[Min(hits)]))
        IN  hits # {} =>
                IF lbl = <<>>
                THEN nav_out.calls = <<>>
                ELSE /\ Len(nav_out.calls) = 1
                     /\ nav_out.calls[1].position = lbl

\* The selected edge statement has two arrows and a bracketed label, and a
\* node was resolved from it.
C3_Witness ==
    /\ nav_pc = "done"
    /\ nav_out.calls # <<>>
    /\ LET lines == chart_lines(nav_args.flow_chart)
           line  == lines[Min(Matches(lines, nav_args.move_text))]
       IN  /\ Len(Split(line, Arrow)) >= 3
           /\ Contains(Bracket, line)

\* C18: a call of next_move makes no AI call when no node is resolved, and
\* otherwise exactly one, for a flow chart of the resolved node with the
\* measurables, the ruleset and the ideas it was given.
C18_OneCallWithSameArguments ==
    nav_pc = "done" =>
        LET np == new_position(nav_args.flow_chart, nav_args.move_text)
        IN  IF np.line = 0 \/ np.label = <<>>
            THEN nav_out.calls = <<>>
            ELSE /\ Len(nav_out.calls) = 1
                 /\ nav_out.calls[1].op = "generate_text"
                 /\ nav_out.calls[1].position = np.label
                 /\ nav_out.calls[1].measurables = nav_args.measurables
                 /\ nav_out.calls[1].ruleset =
                        (IF nav_args.isMMA THEN "MMA" ELSE "Jiu-jitsu")
                 /\ nav_out.calls[1].ideas = nav_args.favorite_ideas
                 /\ nav_out.calls[1].prompt =
                        flow_chart_text(nav_args.measurables, np.label,
                                        nav_args.isMMA, nav_args.favorite_ideas)

\* A call that resolved a node and asked the service, with ideas and
\* measurables given and the Jiu-jitsu ruleset
C18_Witness ==
    /\ nav_pc = "done"
    /\ Len(nav_out.calls) = 1
    /\ nav_args.favorite_ideas = "i1"
    /\ nav_args.measurables = "m1"
    /\ ~nav_args.isMMA

\* C20: when the first edge statement that contains the move text has an
\* empty target label, next_move returns the chart it was given and makes no
\* AI call, whatever later edge statements contain the move text.
C20_EmptyFirstTargetStops ==
    nav_pc = "done" =>
        LET lines == chart_lines(nav_args.flow_chart)
            hits  == Matches(lines, nav_args.move_text)
        IN  (hits # {} /\ target_label(lines[Min(hits)]) = <<>>) =>
                /\ nav_out.calls = <<>>
                /\ ~nav_out.raised
                /\ nav_out.ret = nav_args.flow_chart

\* The first candidate has an empty target and a later one a target
C20_Witness ==
    /\ nav_pc = "done"
    /\ LET lines == chart_lines(nav_args.flow_chart)
           hits  == Matches(lines, nav_args.move_text)
       IN  /\ Cardinality(hits) >= 2
           /\ target_label(lines[Min(hits)]) = <<>>
           /\ target_label(lines[Max(hits)]) # <<>>
    /\ nav_out.calls = <<>>

-----------------------------------------------------------------------------
(* Claims about the script (Spec) *)

\* A run made an external AI call that failed
SomeCallFailed(r) == \E i \in DOMAIN r.calls : ~r.calls[i].ok

\* A run made a chart-generation call that failed
ChartCallFailed(r) ==
    \E i \in DOMAIN r.calls : r.calls[i] = Called("generate_flow_chart", FALSE)

\* A Flow click with a text typed in, for which next_move finds no edge of the
\* chart held before the run
NavigationMiss ==
    /\ run'.screen = "flow"
    /\ run'.button = "flow"
    /\ run'.chosen_next # <<>>
    /\ no_position(new_position_in_chart[current_flowchart.text, run'.chosen_next])

\* C4: whenever a Flow click finds no matching edge, the chart held is left as
\* it was and the user is shown a message, for every text typed, a text that
\* occurs in the chart but on no edge included.
C4_MissInformsUser ==
    [][NavigationMiss =>
          /\ current_flowchart' = current_flowchart
          /\ run'.messages \cap {"not_in_chart", "error_occurred"} # {}]_vars

\* C5: when the chart-generation call of a Flow or a Generate Flow Chart click
\* fails, the failure is caught, an error message is shown and the chart held
\* is the one held before the click.
C5_FailedChartCallKeepsChart ==
    [][(run'.screen = "flow" /\ ChartCallFailed(run')) =>
          /\ ~run'.escaped
          /\ "error_occurred" \in run'.messages
          /\ current_flowchart' = current_flowchart]_vars

\* A Flow click whose chart-generation call failed, a chart being held
C5_Witness ==
    /\ run.screen = "flow"
    /\ run.button = "flow"
    /\ ChartCallFailed(run)
    /\ "error_occurred" \in run.messages
    /\ Truthy(current_flowchart)

\* C6: on every screen, when an external AI call of a run fails, the failure
\* is caught by the script and every session field has the value it had before
\* the run.
C6_FailedCallLeavesSession ==
    [][SomeCallFailed(run') => (~run'.escaped /\ session' = session)]_vars

\* C7: when a required input of a click is missing, the run makes no external
\* AI call, shows an error and changes no session field.
C7_MissingInputRejected ==
    [][(run'.screen \in {"image", "flow"} /\ run'.missing) =>
          /\ run'.calls = <<>>
          /\ "missing_input" \in run'.messages
          /\ session' = session]_vars

\* C8: the chat history held before a run is a prefix of the one held after
\* it: messages are only ever appended.
C8_ChatAppendOnly ==
    [][/\ Len(current_chat') >= Len(current_chat)
       /\ SubSeq(current_chat', 1, Len(current_chat)) = current_chat]_vars

\* A message was sent and answered in a conversation already begun
C8_Witness ==
    /\ run.screen = "talk"
    /\ run.button = "send"
    /\ Len(current_chat) = 5
    /\ current_chat[4].role = "user"

\* C16: the Flow button is clicked only while a chart is held, and after
\* every Flow click a chart is held again, whatever the service returned.
C16_FlowKeepsDiagramReady ==
    [][(run'.screen = "flow" /\ run'.button = "flow") =>
          (Truthy(current_flowchart) /\ Truthy(current_flowchart'))]_vars

\* A run made a chat call that failed
ChatCallFailed(r) ==
    \E i \in DOMAIN r.calls : r.calls[i] = Called("generate_chat_response", FALSE)

\* The three initial messages followed by (user, assistant) pairs
ChatShape(chat) ==
    /\ Len(chat) >= 3
    /\ (Len(chat) - 3) % 2 = 0
    /\ chat[1].role = "system"
    /\ \A i \in 2..Len(chat) :
          chat[i].role = (IF i % 2 = 0 THEN "user" ELSE "assistant")

\* C19: the chat history is empty, or it is the three initial messages
\* followed by (user, assistant) pairs; and a Send whose AI call fails adds
\* neither the user's message nor a response.
C19_ChatShape ==
    /\ [](current_chat = <<>> \/ ChatShape(current_chat))
    /\ [][ChatCallFailed(run') =>
            \/ current_chat' = current_chat
            \/ current_chat = <<>> /\ Len(current_chat') = 3]_vars

\* A Send failed in a conversation already begun
C19_Witness ==
    /\ run.screen = "talk"
    /\ ChatCallFailed(run)
    /\ ChatShape(current_chat)

-----------------------------------------------------------------------------
(* Claims about the segment extractor (SpecSeg) *)

\* The call has returned True for times start < end within the video
SegValidDone ==
    /\ seg_pc = "done"
    /\ seg_ret = "True"
    /\ seg_args.start < seg_args.end
    /\ seg_args.end * seg_args.fps <= seg_args.nframes * TimeDen

\* C9: for start < end within the video, the frames written are those from
\* floor(start*fps) up to floor(end*fps), the last one included when the video
\* has it, so their number is floor(end*fps) - floor(start*fps) + 1 or one
\* less; the output has the width, height and fps of the source.
C9_SegmentFrames ==
    SegValidDone =>
        LET first == frame_of(seg_args.start, seg_args.fps)
            last  == frame_of(seg_args.end, seg_args.fps)
            upto  == Min({last, seg_args.nframes - 1})
            count == Len(seg_out.frames)
        IN  /\ seg_out.frames = [i \in 1..(upto - first + 1) |-> first + i - 1]
            /\ count \in {last - first, last - first + 1}
            /\ seg_out.width = seg_args.width
            /\ seg_out.height = seg_args.height
            /\ seg_out.fps = seg_args.fps

\* A segment of several frames that ends before the last frame of the video
C9_Witness ==
    /\ SegValidDone
    /\ Len(seg_out.frames) >= 2
    /\ Len(seg_out.frames) =
          frame_of(seg_args.end, seg_args.fps)
            - frame_of(seg_args.start, seg_args.fps) + 1

\* C10 as stated: a video that cannot be opened ends the call with an error
\* raised to the caller.
C10_UnopenableRaises ==
    (seg_pc = "done" /\ ~seg_args.openable) => seg_ret = "raised"

\* C10: a video that cannot be opened makes the call return False, with
\* nothing raised and no writer created.
C10_UnopenableReturnsFalse ==
    (seg_pc = "done" /\ ~seg_args.openable) =>
        (seg_ret = "False" /\ ~seg_out.created /\ ~seg_cap.opened)

\* The call has ended on a video that cannot be opened
C10_Witness == seg_pc = "done" /\ ~seg_args.openable /\ seg_ret # "none"

\* C11: when the call has returned, the reader, if it was opened, and the
\* writer, if it was created, have been released.
C11_HandlesReleased ==
    seg_pc = "done" =>
        /\ seg_cap.opened => seg_cap.released
        /\ seg_out.created => seg_out.released

\* The frames the video has from the start frame on
FramesAvailable ==
    LET first == frame_of(seg_args.start, seg_args.fps)
    IN  [i \in 1..Max({0, seg_args.nframes - first}) |-> first + i - 1]

\* The call has returned after a read that found the stream ended, or after
\* copying from a start frame up to an end frame the video does not have
EarlyEndOfStream ==
    /\ seg_pc = "done"
    /\ \/ seg_frame.ret = "False"
       \/ /\ seg_ret = "True"
          /\ seg_frame.end >= seg_args.nframes
          /\ frame_of(seg_args.start, seg_args.fps) <= seg_frame.end

\* C17: when the stream ends before the end frame asked for, the call returns
\* True having written exactly the frames the video has from the start frame
\* on; and the call returns for every start and end time.
C17_EarlyEndOfStream ==
    /\ [](EarlyEndOfStream =>
            /\ seg_ret = "True"
            /\ seg_frame.ret = "False"
            /\ seg_out.frames = FramesAvailable)
    /\ <>(seg_pc = "done")

\* A segment cut short by the end of the video after at least one frame
C17_Witness ==
    /\ EarlyEndOfStream
    /\ seg_frame.end > seg_args.nframes
    /\ Len(seg_out.frames) >= 1

-----------------------------------------------------------------------------
(* Claims about analyze_grappling_match (SpecAna) *)

\* C12: when the extraction of the segment has failed, the video sent to the
\* AI service is the original one, not the segment path.
C12_FailedExtractionSendsOriginal ==
    (seg_pc = "done" /\ seg_ret = "False" /\ ana.sent # "none") =>
        ana.sent = "video"

\* C13: after any sequence of runs, every temporary file still on disk is
\* referenced by the session (it is the current image or the current video).
C13_UnreferencedTmpDeleted ==
    \A f \in tmp_files : f \in {current_image, current_video}

-----------------------------------------------------------------------------
(* Claims about the prompt builders (SpecPrm) *)

\* The piece of fixed text before the ruleset label, and the one after it
RulesetBefore(function) ==
    CASE function = "generate_grappling_plan" ->
             "the image is a still frame from a grappling match. The match has "
      [] function = "analyse_grappling_match" ->
             "these images are frames from a grappling match. The match has "
      [] function = "generate_flow_chart" -> " under the "
RulesetAfter(function) ==
    IF function = "generate_flow_chart"
    THEN " ruleset" ELSE " rules. I want you to analyze: "

\* The values the prompt puts right after the piece `before`
Following(prompt, before) ==
    {prompt[i + 1] : i \in {j \in 1..(Len(prompt) - 1) : prompt[j] = before}}

\* C14: in every prompt built, the ruleset label, between the fixed text
\* before it and the fixed text after it, is "MMA" for the flag True and
\* "Jiu-jitsu" for the flag False, whatever the other arguments are.
C14_RulesetLabel ==
    prm_pc = "done" =>
        LET before == RulesetBefore(prm_args.function)
            label  == IF prm_args.isMMA THEN "MMA" ELSE "Jiu-jitsu"
        IN  /\ Following(prm_out, before) = {label}
            /\ RulesetAfter(prm_args.function) \in Following(prm_out, label)

\* A prompt built for the Jiu-jitsu ruleset with keywords that name the other
C14_Witness ==
    /\ prm_pc = "done"
    /\ ~prm_args.isMMA
    /\ prm_args.keywords = "MMA"
    /\ "Jiu-jitsu" \in Following(prm_out, RulesetBefore(prm_args.function))

\* The fixed text that opens the optional clause of each function
ClauseIntro(function) ==
    CASE function = "generate_grappling_plan" -> PlanClause
      [] function = "analyse_grappling_match" -> MatchClause
      [] function = "generate_flow_chart" -> FlowClause

\* C15: the keywords or ideas clause is in the prompt exactly when the input
\* is not empty; it then holds the input as given, and with an empty input
\* no part of the clause is in the prompt.
C15_OptionalClause ==
    prm_pc = "done" =>
        LET intro  == ClauseIntro(prm_args.function)
            intros == {i \in 1..Len(prm_out) : prm_out[i] = intro}
        IN  IF prm_args.keywords # ""
            THEN /\ Cardinality(intros) = 1
                 /\ Following(prm_out, intro) = {prm_args.keywords}
            ELSE intros = {}

\* A prompt built with keywords, its clause in place
C15_Witness ==
    /\ prm_pc = "done"
    /\ prm_args.keywords = "k1"
    /\ Following(prm_out, ClauseIntro(prm_args.function)) = {"k1"}

====
